---- MODULE Spec2Model ----
(***************************************************************************)
(* vite-plugin-token-shaker: the generateBundle pass over the CSS assets   *)
(* of a bundle.                                                            *)
(*                                                                         *)
(* Text.  The plugin reads CSS with three regular expressions              *)
(* (LAYER_TOKENS_REGEX, VAR_DEF_REGEX, VAR_REF_REGEX).  An asset is        *)
(* modelled as the sequence of lexemes those expressions cut it into:      *)
(*   Lit(s)      text s that none of the expressions matches               *)
(*   Ref(n, fb)  a reference  var(n)  or  var(n, fb)                       *)
(*   Def(n, v)   a declaration  n: v;  outside every tokens layer          *)
(*   Layer(d)    a block  @layer tokens{:root{n1: v1;n2: v2}}  whose       *)
(*               declarations are d; braces are balanced                   *)
(* A value v is a sequence of Lit and Ref lexemes.  Render gives the CSS   *)
(* text of a lexeme sequence; lengths and equality of values are those of  *)
(* the rendered text.                                                      *)
(***************************************************************************)
EXTENDS Integers, Sequences, FiniteSets, TLC

\* ------------------------------------------------------------- lexemes

Lit(s) == [k |-> "lit", n |-> "", s |-> s, v |-> <<>>, d |-> <<>>]
Ref(n, fb) == [k |-> "ref", n |-> n, s |-> fb, v |-> <<>>, d |-> <<>>]
Def(n, v) == [k |-> "def", n |-> n, s |-> "", v |-> v, d |-> <<>>]
Layer(d) == [k |-> "layer", n |-> "", s |-> "", v |-> <<>>, d |-> d]
Decl(n, v) == [n |-> n, v |-> v]

IsRef(p) == p.k = "ref"

\* The concatenation of the sequences ss[lo..hi], by halves.
RECURSIVE FlattenRange(_, _, _)
FlattenRange(ss, lo, hi) ==
    IF lo > hi THEN <<>>
    ELSE IF lo = hi THEN ss[lo]
    ELSE LET mid == (lo + hi) \div 2
         IN FlattenRange(ss, lo, mid) \o FlattenRange(ss, mid + 1, hi)

Flatten(ss) == FlattenRange(ss, 1, Len(ss))

\* The concatenation of the strings strs[lo..hi], by halves.
RECURSIVE ConcatRange(_, _, _)
ConcatRange(strs, lo, hi) ==
    IF lo > hi THEN ""
    ELSE IF lo = hi THEN strs[lo]
    ELSE LET mid == (lo + hi) \div 2
         IN ConcatRange(strs, lo, mid) \o ConcatRange(strs, mid + 1, hi)

Concat(strs) == ConcatRange(strs, 1, Len(strs))

RECURSIVE Join(_, _)
Join(strs, sep) ==
    IF strs = <<>> THEN ""
    ELSE IF Len(strs) = 1 THEN strs[1]
    ELSE strs[1] \o sep \o Join(Tail(strs), sep)

\* var(--name) or var(--name, fallback), as transformCode prints it
RenderRef(n, fb) == "var(" \o n \o (IF fb = "" THEN "" ELSE ", " \o fb) \o ")"

RenderAtom(a) == IF a.k = "ref" THEN RenderRef(a.n, a.s) ELSE a.s

RenderValue(v) == Concat([i \in 1..Len(v) |-> RenderAtom(v[i])])

RenderDecl(dc) == dc.n \o ": " \o RenderValue(dc.v)

\* `@layer tokens{:root{${declarations.join(";")}}}`
RenderLayer(d) ==
    "@layer tokens{:root{" \o Join([i \in 1..Len(d) |-> RenderDecl(d[i])], ";") \o "}}"

RenderPiece(p) ==
    IF p.k = "layer" THEN RenderLayer(p.d)
    ELSE IF p.k = "def" THEN p.n \o ": " \o RenderValue(p.v) \o ";"
    ELSE RenderAtom(p)

Render(code) == Concat([i \in 1..Len(code) |-> RenderPiece(code[i])])

\* ------------------------------------------------------------ scanning

\* The names VAR_REF_REGEX matches in a value, in text order.
RefsOfValue(v) ==
    LET refs == SelectSeq(v, IsRef) IN [i \in 1..Len(refs) |-> refs[i].n]

RefsOfDecls(d) == Flatten([i \in 1..Len(d) |-> RefsOfValue(d[i].v)])

RefsOfPiece(p) ==
    IF p.k = "ref" THEN <<p.n>>
    ELSE IF p.k = "def" THEN RefsOfValue(p.v)
    ELSE IF p.k = "layer" THEN RefsOfDecls(p.d)
    ELSE <<>>

\* code.matchAll(VAR_REF_REGEX): every reference of the text, tokens layers included
RefsOfText(code) == Flatten([i \in 1..Len(code) |-> RefsOfPiece(code[i])])

\* The positions of the tokens layers of a text, first to last.
findTokensLayers(code) ==
    SelectSeq([i \in 1..Len(code) |-> i], LAMBDA i : code[i].k = "layer")

\* ------------------------------------------------------------ registry

\* mangledName: undefined
NoName == ""

Token(name, value, isAlias) ==
    [name |-> name, value |-> value, usageCount |-> 0, setElsewhere |-> FALSE,
     mangledName |-> NoName, isAlias |-> isAlias, emitDeclaration |-> FALSE]

\* The registry is a Map: its entries in insertion order.
Has(reg, name) == \E i \in 1..Len(reg) : reg[i].name = name

Idx(reg, name) == CHOOSE i \in 1..Len(reg) : reg[i].name = name

Get(reg, name) == reg[Idx(reg, name)]

\* The map f over the entries of the registry, in order.
RECURSIVE MapRegistry(_, _)
MapRegistry(f(_), reg) ==
    IF reg = <<>> THEN <<>> ELSE <<f(Head(reg))>> \o MapRegistry(f, Tail(reg))

Names(reg) == {reg[i].name : i \in 1..Len(reg)}

\* The vertical tab, U+000B.
VerticalTab == ""

\* The characters \s matches and String.trim strips, among those a text of
\* the model can hold: the texts are ASCII, so U+00A0, U+FEFF, U+2028, U+2029
\* and the Unicode space separators do not occur.
WhiteSpace == {" ", "\t", "\n", "\r", "\f", VerticalTab}

RECURSIVE TrimStart(_)
TrimStart(s) ==
    IF Len(s) > 0 /\ SubSeq(s, 1, 1) \in WhiteSpace
    THEN TrimStart(SubSeq(s, 2, Len(s)))
    ELSE s

RECURSIVE TrimEnd(_)
TrimEnd(s) ==
    IF Len(s) > 0 /\ SubSeq(s, Len(s), Len(s)) \in WhiteSpace
    THEN TrimEnd(SubSeq(s, 1, Len(s) - 1))
    ELSE s

\* String.trim on the text of a value: the white space at its two ends goes,
\* and with it a literal that was nothing else.
RECURSIVE TrimValueStart(_)
TrimValueStart(v) ==
    IF v = <<>> \/ v[1].k # "lit" THEN v
    ELSE IF TrimStart(v[1].s) = "" THEN TrimValueStart(Tail(v))
    ELSE <<Lit(TrimStart(v[1].s))>> \o Tail(v)

RECURSIVE TrimValueEnd(_)
TrimValueEnd(v) ==
    IF v = <<>> \/ v[Len(v)].k # "lit" THEN v
    ELSE IF TrimEnd(v[Len(v)].s) = "" THEN TrimValueEnd(SubSeq(v, 1, Len(v) - 1))
    ELSE Append(SubSeq(v, 1, Len(v) - 1), Lit(TrimEnd(v[Len(v)].s)))

TrimValue(v) == TrimValueEnd(TrimValueStart(v))

\* VAR_ONLY_REGEX: the value is one var(...) reference, with nothing but
\* white space around it.
IsAliasValue(v) == Len(TrimValue(v)) = 1 /\ TrimValue(v)[1].k = "ref"

\* One match of VAR_DEF_REGEX in a tokens layer: the value is trimmed, and
\* the first seen value wins.
RegisterDecl(reg, dc) ==
    IF ~Has(reg, dc.n)
    THEN LET varValue == TrimValue(dc.v)
         IN Append(reg, Token(dc.n, varValue, IsAliasValue(varValue)))
    ELSE reg

RECURSIVE RegisterDecls(_, _)
RegisterDecls(reg, d) ==
    IF d = <<>> THEN reg ELSE RegisterDecls(RegisterDecl(reg, Head(d)), Tail(d))

extractTokensVariables(code, reg) ==
    LET layers == findTokensLayers(code)
    IN RegisterDecls(reg, Flatten([i \in 1..Len(layers) |-> code[layers[i]].d]))

\* " ".repeat(n)
RECURSIVE Blank(_)
Blank(n) ==
    IF n = 0 THEN ""
    ELSE IF n = 1 THEN " "
    ELSE Blank(n \div 2) \o Blank(n - (n \div 2))

\* The text with every tokens layer blanked out.
codeWithoutTokens(code) ==
    Concat([i \in 1..Len(code) |->
        IF code[i].k = "layer" THEN Blank(Len(RenderPiece(code[i])))
        ELSE RenderPiece(code[i])])

\* The text from position k on is white space and then a colon.
RECURSIVE ColonFollows(_, _)
ColonFollows(text, k) ==
    /\ k <= Len(text)
    /\ \/ SubSeq(text, k, k) = ":"
       \/ SubSeq(text, k, k) \in WhiteSpace /\ ColonFollows(text, k + 1)

\* new RegExp(escapeRegex(varName) + "\\s*:").test(text): the name, anywhere
\* in the text, then white space and a colon.
setRegexTest(varName, text) ==
    \E i \in 1..(Len(text) - Len(varName) + 1) :
        /\ SubSeq(text, i, i + Len(varName) - 1) = varName
        /\ ColonFollows(text, i + Len(varName))

markVariablesSetElsewhere(code, reg) ==
    LET text == codeWithoutTokens(code)
    IN MapRegistry(LAMBDA variable :
                       IF setRegexTest(variable.name, text)
                       THEN [variable EXCEPT !.setElsewhere = TRUE]
                       ELSE variable,
                   reg)

\* A countVariableUsage whose visited set holds only the variables being
\* expanded: a name leaves the set when the scan of its value returns.
RECURSIVE CountRefs_PathGuard(_, _)
CountRefs_PathGuard(refs, st) ==
    IF refs = <<>> THEN st
    ELSE LET varName == Head(refs) IN
         IF ~Has(st.reg, varName) THEN CountRefs_PathGuard(Tail(refs), st)
         ELSE LET i == Idx(st.reg, varName)
                  counted == [st EXCEPT !.reg[i].usageCount = @ + 1]
                  nested ==
                      IF varName \in st.visited THEN counted
                      ELSE CountRefs_PathGuard(RefsOfValue(st.reg[i].value),
                                     [counted EXCEPT
                                         !.visited = @ \cup {varName},
                                         !.expanded = Append(@, varName)])
              IN CountRefs_PathGuard(Tail(refs),
                                     [nested EXCEPT !.visited = st.visited])

\* The loop of countVariableUsage over the matches refs of one text; st
\* carries the registry and the visited set through the recursion, and
\* expanded lists the variables whose value a nested call scanned.
RECURSIVE CountRefs(_, _)
CountRefs(refs, st) ==
    IF refs = <<>> THEN st
    ELSE LET varName == Head(refs) IN
         IF ~Has(st.reg, varName) THEN CountRefs(Tail(refs), st)
         ELSE LET i == Idx(st.reg, varName)
                  counted == [st EXCEPT !.reg[i].usageCount = @ + 1]
                  nested ==
                      IF varName \in st.visited THEN counted
                      ELSE CountRefs(RefsOfValue(st.reg[i].value),
                                     [counted EXCEPT
                                         !.visited = @ \cup {varName},
                                         !.expanded = Append(@, varName)])
              IN CountRefs(Tail(refs), nested)

CountScan(code, reg, visited) ==
    CountRefs(RefsOfText(code),
              [reg |-> reg, visited |-> visited, expanded |-> <<>>])

countVariableUsage(code, reg, visited) == CountScan(code, reg, visited).reg

resetUsageCounts(reg) ==
    MapRegistry(LAMBDA variable :
                    [variable EXCEPT !.usageCount = 0, !.mangledName = NoName,
                                     !.emitDeclaration = FALSE],
                reg)

\* ---------------------------------------------------- value resolution

MaxDepth == 10

\* A depth test that stops one level early, and one that stops one level late.
DepthExceeded_Early(depth) == depth >= MaxDepth

DepthExceeded_Late(depth) == depth > MaxDepth + 1

\* if (depth > 10)
DepthExceeded(depth) == depth > MaxDepth

\* The resolved value, as lexemes; its text is RenderValue of it.
RECURSIVE resolveVariableValue(_, _, _)
resolveVariableValue(varName, reg, depth) ==
    IF DepthExceeded(depth) THEN <<Ref(varName, "")>>
    ELSE IF ~Has(reg, varName) THEN <<Ref(varName, "")>>
    ELSE LET value == Get(reg, varName).value
         IN Flatten([i \in 1..Len(value) |->
                IF value[i].k = "ref"
                THEN resolveVariableValue(value[i].n, reg, depth + 1)
                ELSE <<value[i]>>])

\* The deepest level (depth) at which a call of resolveVariableValue
\* substitutes a registered variable's value; -1 when none does.
RECURSIVE resolveDepth(_, _, _)
resolveDepth(varName, reg, depth) ==
    IF DepthExceeded(depth) THEN -1
    ELSE IF ~Has(reg, varName) THEN -1
    ELSE LET nested == RefsOfValue(Get(reg, varName).value)
             below == {resolveDepth(nested[i], reg, depth + 1) : i \in 1..Len(nested)}
         IN CHOOSE m \in below \cup {depth} : \A x \in below \cup {depth} : m >= x

ResolvedText(varName, reg) == RenderValue(resolveVariableValue(varName, reg, 0))

\* ------------------------------------------------------ decision engine

\* options.manglePrefix, at its default
manglePrefix == "--_"

Digits36 ==
    <<"0", "1", "2", "3", "4", "5", "6", "7", "8", "9", "a", "b", "c", "d", "e",
      "f", "g", "h", "i", "j", "k", "l", "m", "n", "o", "p", "q", "r", "s", "t",
      "u", "v", "w", "x", "y", "z">>

\* counter.toString(36)
RECURSIVE ToString36(_)
ToString36(c) ==
    IF c < 36 THEN Digits36[c + 1]
    ELSE ToString36(c \div 36) \o Digits36[(c % 36) + 1]

MangledNameFor(counter) == manglePrefix \o ToString36(counter)

\* A grouping that does not skip the variables with usageCount 0.
RECURSIVE GroupVars_NoSkip(_, _, _)
GroupVars_NoSkip(reg, i, groups) ==
    IF i > Len(reg) THEN groups
    ELSE LET resolvedValue == ResolvedText(reg[i].name, reg)
             found == {g \in 1..Len(groups) : groups[g].resolvedValue = resolvedValue}
         IN IF found # {}
            THEN LET g == CHOOSE x \in found : TRUE
                 IN GroupVars_NoSkip(reg, i + 1,
                        [groups EXCEPT ![g].varNames = Append(@, reg[i].name)])
            ELSE GroupVars_NoSkip(reg, i + 1,
                     Append(groups, [resolvedValue |-> resolvedValue,
                                     varNames |-> <<reg[i].name>>]))

\* valueToVars: the used variables grouped by resolved value, groups and
\* members in registry order.
RECURSIVE GroupVars(_, _, _)
GroupVars(reg, i, groups) ==
    IF i > Len(reg) THEN groups
    ELSE IF reg[i].usageCount = 0 THEN GroupVars(reg, i + 1, groups)
    ELSE LET resolvedValue == ResolvedText(reg[i].name, reg)
             found == {g \in 1..Len(groups) : groups[g].resolvedValue = resolvedValue}
         IN IF found # {}
            THEN LET g == CHOOSE x \in found : TRUE
                 IN GroupVars(reg, i + 1,
                        [groups EXCEPT ![g].varNames = Append(@, reg[i].name)])
            ELSE GroupVars(reg, i + 1,
                     Append(groups, [resolvedValue |-> resolvedValue,
                                     varNames |-> <<reg[i].name>>]))

valueToVars(reg) == GroupVars(reg, 1, <<>>)

\* A choice of canonical variable that always takes the first member.
canonicalVarName_First(varNames, reg) == varNames[1]

\* varNames.find((v) => !registry.get(v).isAlias) ?? varNames[0]
canonicalVarName(varNames, reg) ==
    LET nonAlias == {i \in 1..Len(varNames) : ~Get(reg, varNames[i]).isAlias}
    IN IF nonAlias # {}
       THEN varNames[CHOOSE i \in nonAlias : \A j \in nonAlias : i <= j]
       ELSE varNames[1]

RECURSIVE SumUsage(_, _)
SumUsage(varNames, reg) ==
    IF varNames = <<>> THEN 0
    ELSE Get(reg, Head(varNames)).usageCount + SumUsage(Tail(varNames), reg)

totalUsage(varNames, reg) == SumUsage(varNames, reg)

declarationCost(mangledName, valueLen) == Len(mangledName) + 2 + valueLen + 1

\* A reference cost that leaves out the five characters of "var(" and ")".
referenceCost_NameOnly(mangledName) == Len(mangledName) + 1

referenceCost(mangledName) == 5 + Len(mangledName) + 1

mangleCost(mangledName, valueLen, usage) ==
    declarationCost(mangledName, valueLen) + usage * referenceCost(mangledName)

inlineCost(valueLen, usage) == usage * valueLen

shouldMangle(mangledName, valueLen, usage) ==
    mangleCost(mangledName, valueLen, usage) < inlineCost(valueLen, usage)

\* The body of the loop over valueToVars for one group.
DecideGroup(group, st) ==
    LET varNames == group.varNames
        canonical == canonicalVarName(varNames, st.reg)
        mangledName == MangledNameFor(st.counter)
        members == {varNames[i] : i \in 1..Len(varNames)}
    IN IF shouldMangle(mangledName, Len(group.resolvedValue),
                       totalUsage(varNames, st.reg))
       THEN [reg |-> MapRegistry(LAMBDA v :
                         IF v.name \in members
                         THEN [v EXCEPT !.mangledName = mangledName,
                                        !.emitDeclaration = (v.name = canonical)]
                         ELSE v,
                         st.reg),
             counter |-> st.counter + 1]
       ELSE [reg |-> MapRegistry(LAMBDA v :
                         IF v.name \in members
                         THEN [v EXCEPT !.mangledName = NoName,
                                        !.emitDeclaration = FALSE]
                         ELSE v,
                         st.reg),
             counter |-> st.counter]

RECURSIVE DecideGroups(_, _)
DecideGroups(groups, st) ==
    IF groups = <<>> THEN st
    ELSE DecideGroups(Tail(groups), DecideGroup(Head(groups), st))

\* Returns the registry with the decisions and the counter (the number of
\* mangled groups).
generateMangledNames(reg) ==
    DecideGroups(valueToVars(reg), [reg |-> reg, counter |-> 0])

\* ---------------------------------------------------------- transformer

\* A declarations loop without the branch that keeps set-elsewhere variables.
DeclStep_NoKeep(dc, reg, st) ==
    IF ~Has(reg, dc.n) THEN st
    ELSE LET variable == Get(reg, dc.n)
             resolved == resolveVariableValue(dc.n, reg, 0)
         IN IF /\ variable.usageCount > 0
               /\ variable.mangledName # NoName
               /\ variable.emitDeclaration /\ ~variable.isAlias
               /\ RenderValue(resolved) \notin st.emittedValues
            THEN [declarations |->
                      Append(st.declarations, Decl(variable.mangledName, resolved)),
                  emittedValues |-> st.emittedValues \cup {RenderValue(resolved)}]
            ELSE st

\* The declarations loop of transformCode for one layer; st carries the
\* declarations pushed so far and the per-file emittedValues.
DeclStep(dc, reg, st) ==
    IF ~Has(reg, dc.n) THEN st
    ELSE LET variable == Get(reg, dc.n) IN
         IF variable.usageCount = 0 THEN st
         ELSE IF variable.setElsewhere
              THEN [st EXCEPT !.declarations = Append(@, Decl(dc.n, dc.v))]
         ELSE IF variable.mangledName # NoName
              THEN LET resolved == resolveVariableValue(dc.n, reg, 0)
                       resolvedValue == RenderValue(resolved)
                   IN IF variable.emitDeclaration /\ ~variable.isAlias
                         /\ resolvedValue \notin st.emittedValues
                      THEN [declarations |->
                                Append(st.declarations,
                                       Decl(variable.mangledName, resolved)),
                            emittedValues |-> st.emittedValues \cup {resolvedValue}]
                      ELSE st
         ELSE st

RECURSIVE DeclLoop(_, _, _)
DeclLoop(d, reg, st) ==
    IF d = <<>> THEN st ELSE DeclLoop(Tail(d), reg, DeclStep(Head(d), reg, st))

\* The loop over layers.reverse(): layers[1..j] are still to be processed,
\* last first; out maps each processed layer's position to its declarations.
RECURSIVE RewriteLayers(_, _, _, _, _)
RewriteLayers(code, layers, j, reg, acc) ==
    IF j = 0 THEN acc.out
    ELSE LET st == DeclLoop(code[layers[j]].d, reg,
                       [declarations |-> <<>>, emittedValues |-> acc.emittedValues])
         IN RewriteLayers(code, layers, j - 1, reg,
                [out |-> [acc.out EXCEPT ![layers[j]] = st.declarations],
                 emittedValues |-> st.emittedValues])

\* The first pass of transformCode: each layer is rebuilt from its surviving
\* declarations, or removed when none survives.
rewriteDeclarations(code, reg) ==
    LET layers == findTokensLayers(code)
        out == RewriteLayers(code, layers, Len(layers), reg,
                   [out |-> [i \in 1..Len(code) |-> <<>>], emittedValues |-> {}])
    IN Flatten([i \in 1..Len(code) |->
           IF code[i].k # "layer" THEN <<code[i]>>
           ELSE IF Len(out[i]) > 0 THEN <<Layer(out[i])>>
           ELSE <<>>])

\* The replacer of result.replace(VAR_REF_REGEX, ...) for one reference.
ReplaceRef(a, reg) ==
    IF ~Has(reg, a.n) THEN <<a>>
    ELSE LET variable == Get(reg, a.n) IN
         IF variable.mangledName # NoName THEN <<Ref(variable.mangledName, a.s)>>
         ELSE IF ~variable.setElsewhere THEN resolveVariableValue(a.n, reg, 0)
         ELSE <<a>>

ReplaceInValue(v, reg) ==
    Flatten([i \in 1..Len(v) |->
        IF v[i].k = "ref" THEN ReplaceRef(v[i], reg) ELSE <<v[i]>>])

ReplacePiece(p, reg) ==
    IF p.k = "ref" THEN ReplaceRef(p, reg)
    ELSE IF p.k = "def" THEN <<Def(p.n, ReplaceInValue(p.v, reg))>>
    ELSE IF p.k = "layer"
         THEN <<Layer([i \in 1..Len(p.d) |->
                    Decl(p.d[i].n, ReplaceInValue(p.d[i].v, reg))])>>
    ELSE <<p>>

\* The second pass of transformCode: every reference of the rewritten text.
replaceReferences(code, reg) ==
    Flatten([i \in 1..Len(code) |-> ReplacePiece(code[i], reg)])

transformCode(code, reg) == replaceReferences(rewriteDeclarations(code, reg), reg)

\* --------------------------------------------------------------- inputs

\* Bounds of the bundles the pass is run on.
MaxUse == 2
MaxUseB == 1
MaxChain == 11
MaxMany == 50
MaxPass == 2

VarA == "--a"
VarB == "--b"
VarC == "--c"
\* A custom property no tokens layer declares.
VarExt == "--md-sys-color-on-surface"

Short == "#ff0000"
Long1 == "0 1px 3px 1px rgba(0,0,0,.15)"
Long2 == "cubic-bezier(0.2, 0, 0, 1) 0.3s"

\* n rules that each use the variable once:  .u{p:var(--x)}
Uses(name, fb, n) ==
    Flatten([i \in 1..n |-> <<Lit(".u{p:"), Ref(name, fb), Lit("}")>>])

\* A rule that assigns the variable outside the tokens layer.
Assign(name) == <<Lit(".dark{"), Def(name, <<Lit("blue")>>), Lit("}")>>

\* A rule whose selector ends with the variable's name, before a colon.
Selector(name) == <<Lit(".btn" \o name \o ":hover{color:red}")>>

\* What the first asset holds after its uses: nothing, an assignment of --a,
\* or a selector that only looks like one.
OutsidePool == { <<>>, Assign(VarA), Selector(VarA) }

AcyclicPool ==
    { <<Decl(VarA, <<Lit(Short)>>)>>,
      <<Decl(VarA, <<Lit(Long1)>>)>>,
      <<Decl(VarA, <<Lit(Long1)>>), Decl(VarB, <<Ref(VarA, "")>>)>>,
      <<Decl(VarB, <<Ref(VarA, "")>>), Decl(VarA, <<Lit(Long1)>>)>>,
      <<Decl(VarA, <<Lit(Long1)>>), Decl(VarB, <<Lit(Long1)>>)>>,
      <<Decl(VarB, <<Lit(Long2)>>), Decl(VarA, <<Lit(Long1)>>)>>,
      <<Decl(VarA, <<Lit(Long1)>>), Decl(VarB, <<Ref(VarA, "")>>),
        Decl(VarC, <<Ref(VarA, "")>>)>>,
      <<Decl(VarC, <<Lit(Long2)>>), Decl(VarB, <<Ref(VarC, "")>>),
        Decl(VarA, <<Lit(Long1)>>)>>,
      <<Decl(VarA, <<Ref(VarExt, "")>>)>>,
      <<Decl(VarA, <<Ref(VarExt, "")>>), Decl(VarB, <<Ref(VarA, "")>>)>>,
      <<Decl(VarA, <<Lit(Short)>>),
        Decl(VarB, <<Lit("1px solid "), Ref(VarA, "")>>)>>,
      <<Decl(VarC, <<Lit(Long2)>>),
        Decl(VarB, <<Ref(VarC, ""), Lit(" "), Ref(VarC, "")>>),
        Decl(VarA, <<Lit(Long1)>>)>>,
      <<Decl(VarA, <<Lit(Short)>>), Decl(VarA, <<Lit(Long1)>>)>>,
      <<Decl(VarA, <<Lit(Long1 \o " ")>>),
        Decl(VarB, <<Ref(VarA, ""), Lit(" " \o VerticalTab)>>)>> }

\* Declarations that refer to themselves, directly or through one another.
CyclicPool ==
    { <<Decl(VarA, <<Ref(VarA, "")>>)>>,
      <<Decl(VarA, <<Ref(VarB, "")>>), Decl(VarB, <<Ref(VarA, "")>>)>> }

LayerPool == AcyclicPool \cup CyclicPool

\* The second asset of a bundle, given the declarations of the first.
SecondPool(d) ==
    { <<>>,
      Uses(VarB, "", 1),
      <<Layer(d)>> \o Uses(VarA, "", 1),
      <<Layer(d), Lit(".x{}"), Layer(d)>> \o Uses(VarB, "", 1) \o Uses(VarA, "", 1) }

Bundle(first, second) == IF second = <<>> THEN <<first>> ELSE <<first, second>>

GenInputsFor(d) ==
    { Bundle(<<Layer(d)>> \o Uses(VarA, "", na) \o Uses(VarB, "inherit", nb)
                 \o outside,
             second) :
        na \in 0..MaxUse, nb \in 0..MaxUseB, outside \in OutsidePool,
        second \in SecondPool(d) }

GenInputs == UNION {GenInputsFor(d) : d \in LayerPool}

CyclicInputs == UNION {GenInputsFor(d) : d \in CyclicPool}

\* --c0: #ff0000; --c1: var(--c0); ... ; --ck: var(--c(k-1)), used once.
ChainVar(i) == "--c" \o ToString36(i)

ChainDecls(k) ==
    [i \in 1..(k + 1) |->
        IF i = 1 THEN Decl(ChainVar(0), <<Lit(Short)>>)
        ELSE Decl(ChainVar(i - 1), <<Ref(ChainVar(i - 2), "")>>)]

ChainInputs ==
    { <<<<Layer(ChainDecls(k))>> \o Uses(ChainVar(k), "", 1)>> : k \in 0..MaxChain }

\* --a: #ff0000 used n times.
ManyInputs ==
    { <<<<Layer(<<Decl(VarA, <<Lit(Short)>>)>>)>> \o Uses(VarA, "", n)>> :
        n \in 1..MaxMany }

\* No CSS asset at all, and a CSS asset without a tokens layer.
PlainInputs == { <<>>, <<Uses(VarA, "", 1)>> }

Inputs == GenInputs \cup ChainInputs \cup ManyInputs \cup PlainInputs

\* -------------------------------------------------------- generateBundle

VARIABLES
    assets,        \* the source of each CSS asset of the bundle
    registry,      \* the plugin's registry
    pc,            \* the position in generateBundle
    idx,           \* the asset the current loop is at
    pass,          \* the number of the generateBundle call
    mangledCount,  \* the value generateMangledNames returned
    source,        \* the assets as the current call received them
    declStage,     \* per asset, the text after the declarations pass
    expandLog,     \* per asset, the variables countVariableUsage expanded
    resolveLog,    \* per used variable, what generateMangledNames resolved
    changed        \* the assets whose source the current call replaced

vars ==
    <<assets, registry, pc, idx, pass, mangledCount, source, declStage,
      expandLog, resolveLog, changed>>

InitFrom(bundles) ==
    /\ assets \in bundles
    /\ registry = <<>>
    /\ pc = "start"
    /\ idx = 1
    /\ pass = 1
    /\ mangledCount = 0
    /\ source = assets
    /\ declStage = [i \in 1..Len(assets) |-> <<>>]
    /\ expandLog = [i \in 1..Len(assets) |-> <<>>]
    /\ resolveLog = <<>>
    /\ changed = {}

Init == InitFrom(Inputs)

\* The bundles on which termination is at stake: cyclic declarations and
\* chains up to and beyond the depth limit.
FairInit == InitFrom(CyclicInputs \cup ChainInputs \cup PlainInputs)

\* registry.clear(); return when the bundle holds no CSS asset.
Begin ==
    /\ pc = "start"
    /\ registry' = <<>>
    /\ pc' = IF Len(assets) = 0 THEN "done" ELSE "extract"
    /\ idx' = 1
    /\ resolveLog' = <<>>
    /\ UNCHANGED <<assets, pass, mangledCount, source, declStage, expandLog, changed>>

\* One round of the loop that extracts the tokens variables of every asset.
ExtractStep ==
    /\ pc = "extract"
    /\ idx <= Len(assets)
    /\ registry' = extractTokensVariables(assets[idx], registry)
    /\ idx' = idx + 1
    /\ UNCHANGED <<assets, pc, pass, mangledCount, source, declStage, expandLog,
                   resolveLog, changed>>

\* return when the registry is empty; else resetUsageCounts.
EndExtract ==
    /\ pc = "extract"
    /\ idx > Len(assets)
    /\ registry' = resetUsageCounts(registry)
    /\ pc' = IF Len(registry) = 0 THEN "done" ELSE "analyze"
    /\ idx' = 1
    /\ UNCHANGED <<assets, pass, mangledCount, source, declStage, expandLog,
                   resolveLog, changed>>

\* The analysis of one file: a fresh visited set for each call.
analyzeFile(code, reg) ==
    countVariableUsage(code, markVariablesSetElsewhere(code, reg), {})

AnalyzeStep ==
    /\ pc = "analyze"
    /\ idx <= Len(assets)
    /\ registry' = analyzeFile(assets[idx], registry)
    /\ expandLog' = [expandLog EXCEPT ![idx] =
           CountScan(assets[idx],
                     markVariablesSetElsewhere(assets[idx], registry), {}).expanded]
    /\ idx' = idx + 1
    /\ UNCHANGED <<assets, pc, pass, mangledCount, source, declStage, resolveLog,
                   changed>>

\* The call of resolveVariableValue on a used variable: what it returned and
\* the deepest level at which it substituted a value.
Resolution(variable, reg) ==
    [name |-> variable.name,
     resolved |-> resolveVariableValue(variable.name, reg, 0),
     depth |-> resolveDepth(variable.name, reg, 0)]

Decide ==
    /\ pc = "analyze"
    /\ idx > Len(assets)
    /\ LET r == generateMangledNames(registry)
       IN /\ registry' = r.reg
          /\ mangledCount' = r.counter
    /\ resolveLog' = MapRegistry(LAMBDA variable : Resolution(variable, registry),
                                 SelectSeq(registry, LAMBDA v : v.usageCount > 0))
    /\ pc' = "transform"
    /\ idx' = 1
    /\ UNCHANGED <<assets, pass, source, declStage, expandLog, changed>>

\* One round of the transform loop: the asset's source is replaced when the
\* transformed text differs from it.
TransformStep ==
    /\ pc = "transform"
    /\ idx <= Len(assets)
    /\ LET transformed == transformCode(assets[idx], registry)
       IN IF Render(transformed) # Render(assets[idx])
          THEN /\ assets' = [assets EXCEPT ![idx] = transformed]
               /\ changed' = changed \cup {idx}
          ELSE UNCHANGED <<assets, changed>>
    /\ declStage' = [declStage EXCEPT ![idx] = rewriteDeclarations(assets[idx], registry)]
    /\ idx' = idx + 1
    /\ UNCHANGED <<registry, pc, pass, mangledCount, source, expandLog, resolveLog>>

EndTransform ==
    /\ pc = "transform"
    /\ idx > Len(assets)
    /\ pc' = "done"
    /\ UNCHANGED <<assets, registry, idx, pass, mangledCount, source, declStage,
                   expandLog, resolveLog, changed>>

\* generateBundle is called again, on the bundle the previous call left.
Rerun ==
    /\ pc = "done"
    /\ pass < MaxPass
    /\ pass' = pass + 1
    /\ pc' = "start"
    /\ idx' = 1
    /\ source' = assets
    /\ changed' = {}
    /\ declStage' = [i \in 1..Len(assets) |-> <<>>]
    /\ expandLog' = [i \in 1..Len(assets) |-> <<>>]
    /\ UNCHANGED <<assets, registry, mangledCount, resolveLog>>

Next ==
    \/ Begin
    \/ ExtractStep
    \/ EndExtract
    \/ AnalyzeStep
    \/ Decide
    \/ TransformStep
    \/ EndTransform
    \/ Rerun

Spec == Init /\ [][Next]_vars

\* Where the calls of generateBundle stand.
position == <<pc, idx, pass>>

\* The last call has returned.
Returned == pc = "done" /\ pass >= MaxPass

\* A step of a call under way, told by the position alone. Every action of
\* Next moves the position and one of them is open at every position short
\* of Returned, so under [][Next]_vars the steps of Proceed are the steps of
\* Next and Proceed is enabled exactly where Next is.
Proceed ==
    /\ ~Returned
    /\ pc' \in {"start", "extract", "analyze", "transform", "done"}
    /\ idx' \in 1..(Len(assets) + 1)
    /\ pass' \in 1..MaxPass

\* generateBundle is sequential code: a call under way takes its next step.
FairSpec == FairInit /\ [][Next]_vars /\ WF_position(Proceed)

\* ------------------------------------------------------------ analysis

Max(S) == CHOOSE m \in S : \A x \in S : m >= x

\* generateMangledNames has run for the current call.
AfterDecide == pc \in {"transform", "done"} /\ Len(registry) > 0

\* extractTokensVariables has run over every asset of the current call.
Extracted == pc \in {"analyze", "transform", "done"} /\ Len(registry) > 0

\* transformCode has run on asset j in the current call: source[j] is what it
\* read, assets[j] what it returned, declStage[j] its text after the first pass.
Transformed(j) ==
    /\ AfterDecide
    /\ j \in 1..Len(assets)
    /\ (pc = "done" \/ j < idx)

Used(reg) == {reg[i].name : i \in {k \in 1..Len(reg) : reg[k].usageCount > 0}}

\* The declarations of the tokens layers of a text, in order.
LayerDecls(code) ==
    LET layers == findTokensLayers(code)
    IN Flatten([i \in 1..Len(layers) |-> code[layers[i]].d])

DeclNames(code) == {LayerDecls(code)[i].n : i \in 1..Len(LayerDecls(code))}

\* How many declarations of the tokens layers of a text satisfy P.
CountDecls(code, P(_)) == Len(SelectSeq(LayerDecls(code), P))

\* The references outside the tokens layers of a text, in order.
OutsideRefs(code) ==
    Flatten([i \in 1..Len(code) |->
        IF code[i].k = "ref" THEN <<code[i]>>
        ELSE IF code[i].k = "def" THEN SelectSeq(code[i].v, IsRef)
        ELSE <<>>])

SitesOf(code, name) == SelectSeq(OutsideRefs(code), LAMBDA r : r.n = name)

Occurrences(names, name) == Len(SelectSeq(names, LAMBDA n : n = name))

\* The registered variables a value refers to.
RegRefs(reg, name) ==
    {n \in {RefsOfValue(Get(reg, name).value)[i] :
              i \in 1..Len(RefsOfValue(Get(reg, name).value))} : Has(reg, n)}

\* The registered variables reachable from the set S through values.
RECURSIVE Closure(_, _)
Closure(reg, S) ==
    LET next == S \cup UNION {RegRefs(reg, x) : x \in S}
    IN IF next = S THEN S ELSE Closure(reg, next)

Acyclic(reg) == \A x \in Names(reg) : x \notin Closure(reg, RegRefs(reg, x))

\* The longest chain of references from a variable (acyclic registries).
RECURSIVE Height(_, _)
Height(reg, name) ==
    IF RegRefs(reg, name) = {} THEN 0
    ELSE 1 + Max({Height(reg, y) : y \in RegRefs(reg, name)})

\* --------------------------------------------------------------- claims

\* C1: a variable that is set elsewhere is never given a mangledName by
\* generateMangledNames, and transformCode leaves every reference to it
\* outside the tokens layers as it was, in every asset.
C1_SetElsewhereUntouched ==
    \A i \in 1..Len(registry) :
        (AfterDecide /\ registry[i].setElsewhere) =>
            /\ registry[i].mangledName = NoName
            /\ \A j \in 1..Len(assets) :
                   Transformed(j) =>
                       SitesOf(assets[j], registry[i].name)
                           = SitesOf(source[j], registry[i].name)

C1_Witness ==
    \E i \in 1..Len(registry) :
        /\ registry[i].setElsewhere
        /\ registry[i].usageCount > 1
        /\ pc = "done"

\* The declarations of source[j] whose variable is set elsewhere and
\* satisfies P are all in the text the declarations pass left.
KeptVerbatim(j, P(_)) ==
    \A k \in 1..Len(LayerDecls(source[j])) :
        LET dc == LayerDecls(source[j])[k] IN
        (Has(registry, dc.n) /\ Get(registry, dc.n).setElsewhere
             /\ P(Get(registry, dc.n))) =>
            CountDecls(declStage[j], LAMBDA x : x = dc)
                >= CountDecls(source[j], LAMBDA x : x = dc)

\* C2 as stated: the declarations pass emits the declaration of every
\* set-elsewhere variable with its original name and value, even when the
\* variable's usageCount is 0.
C2_KeptEvenIfUnused ==
    \A j \in 1..Len(assets) :
        Transformed(j) => KeptVerbatim(j, LAMBDA variable : TRUE)

\* C2, amended: the declarations pass emits the declaration of every
\* set-elsewhere variable whose usageCount is above 0 with its original name
\* and value.
C2_KeptWhenUsed ==
    \A j \in 1..Len(assets) :
        Transformed(j) => KeptVerbatim(j, LAMBDA variable : variable.usageCount > 0)

C2_Witness ==
    \E j \in 1..Len(assets) :
        /\ Transformed(j)
        /\ \E k \in 1..Len(LayerDecls(source[j])) :
               LET dc == LayerDecls(source[j])[k] IN
               /\ Get(registry, dc.n).setElsewhere
               /\ Get(registry, dc.n).usageCount > 0
               /\ dc \in {LayerDecls(declStage[j])[m] :
                            m \in 1..Len(LayerDecls(declStage[j]))}

\* The used variables form one group, whose resolved value is #ff0000 and
\* whose members are not set elsewhere.
SingleShortGroup ==
    /\ AfterDecide
    /\ Len(valueToVars(registry)) = 1
    /\ valueToVars(registry)[1].resolvedValue = Short
    /\ \A m \in Used(registry) : ~Get(registry, m).setElsewhere

GroupUsage == totalUsage(valueToVars(registry)[1].varNames, registry)

IsShortLit(p) == p.k = "lit" /\ p.s = Short

\* The group is inlined: no member has a mangledName, and a transformed asset
\* declares and references neither a member nor --_0, each of its reference
\* sites having become the text #ff0000.
InlinedOutcome ==
    /\ \A m \in Used(registry) : Get(registry, m).mangledName = NoName
    /\ mangledCount = 0
    /\ \A j \in 1..Len(assets) :
           Transformed(j) =>
               /\ DeclNames(assets[j]) = {}
               /\ \A i \in 1..Len(RefsOfText(assets[j])) :
                      RefsOfText(assets[j])[i] \notin Used(registry) \cup {MangledNameFor(0)}
               /\ Len(SelectSeq(assets[j], IsShortLit))
                      = Len(SelectSeq(OutsideRefs(source[j]),
                                      LAMBDA r : r.n \in Used(registry)))

\* The group is mangled as --_0: every member carries that name, and a
\* transformed asset that declared a member declares --_0 once, each of its
\* reference sites having become a reference to --_0.
MangledOutcome ==
    /\ \A m \in Used(registry) : Get(registry, m).mangledName = MangledNameFor(0)
    /\ \A j \in 1..Len(assets) :
           Transformed(j) =>
               /\ (DeclNames(source[j]) # {} =>
                      CountDecls(assets[j], LAMBDA x : x.n = MangledNameFor(0)) = 1)
               /\ Len(SitesOf(assets[j], MangledNameFor(0)))
                      = Len(SelectSeq(OutsideRefs(source[j]),
                                      LAMBDA r : r.n \in Used(registry)))

\* C3 as stated: with prefix --_ and one group of value #ff0000, a total
\* usage of 1 inlines the group and a total usage of 50 mangles it as --_0.
C3_Threshold ==
    /\ (SingleShortGroup /\ GroupUsage = 1) => InlinedOutcome
    /\ (SingleShortGroup /\ GroupUsage = 50) => MangledOutcome

\* C3, amended: with prefix --_ and one group of value #ff0000, the group is
\* inlined at a total usage of 1 and also at a total usage of 50 (mangleCost
\* 14 + 50 * 10 = 514 is not below inlineCost 50 * 7 = 350).
C3_ShortValueInlined ==
    (SingleShortGroup /\ (GroupUsage = 1 \/ GroupUsage = 50)) => InlinedOutcome

C3_Witness ==
    /\ SingleShortGroup
    /\ GroupUsage = 50
    /\ pc = "done"
    /\ Len(SelectSeq(assets[1], IsShortLit)) = 50

\* C4: a second call of generateBundle on the bundle the first call left
\* replaces no asset's source.
C4_Idempotent == (pass > 1 /\ pc = "done") => changed = {}

\* The variables the pass found unused and not set elsewhere.
Unused(reg) ==
    {reg[i].name : i \in {k \in 1..Len(reg) :
                            reg[k].usageCount = 0 /\ ~reg[k].setElsewhere}}

\* The text without the tokens-layer declarations of a variable.
WithoutDecls(code, name) ==
    [i \in 1..Len(code) |->
        IF code[i].k = "layer"
        THEN Layer(SelectSeq(code[i].d, LAMBDA dc : dc.n # name))
        ELSE code[i]]

\* What C5 says of an unused variable u in transformed asset j, given what a
\* declaration of the output named u may be.
Deleted(j, u, Allowed(_)) ==
    /\ Get(registry, u).mangledName = NoName
    /\ \A k \in 1..Len(LayerDecls(assets[j])) :
           LayerDecls(assets[j])[k].n = u => Allowed(LayerDecls(assets[j])[k])
    /\ \A i \in 1..Len(assets[j]) : assets[j][i].k = "def" => assets[j][i].n # u
    /\ declStage[j] = rewriteDeclarations(WithoutDecls(source[j], u), registry)

\* C5 as stated: a variable with usageCount 0 that is not set elsewhere has no
\* declaration under its own name in any asset's output and no synthetic
\* name, and the other declarations come out as they do without it.
C5_Deletion ==
    \A j \in 1..Len(assets) :
        Transformed(j) =>
            \A u \in Unused(registry) : Deleted(j, u, LAMBDA dc : FALSE)

\* C5, amended: a variable with usageCount 0 that is not set elsewhere has no
\* synthetic name and no declaration emitted for it: a declaration of the
\* output that bears its name is the synthetic declaration of a mangled
\* group whose mangledName equals that name; the other declarations come out
\* as they do without it.
C5_DeletionUpToSyntheticNames ==
    \A j \in 1..Len(assets) :
        Transformed(j) =>
            \A u \in Unused(registry) :
                Deleted(j, u, LAMBDA dc :
                    \E w \in Used(registry) :
                        /\ Get(registry, w).mangledName = u
                        /\ Get(registry, w).emitDeclaration)

C5_Witness ==
    \E j \in 1..Len(assets) :
        /\ Transformed(j)
        /\ \E u \in Unused(registry) : u \in DeclNames(source[j])
        /\ DeclNames(assets[j]) # {}

\* The used variables whose resolved value is that of x: its group.
GroupOf(x) ==
    {y \in Used(registry) : ResolvedText(y, registry) = ResolvedText(x, registry)}

\* The first member of a set of registered variables, in registry order.
FirstOf(S) ==
    registry[CHOOSE i \in 1..Len(registry) :
                 /\ registry[i].name \in S
                 /\ \A k \in 1..(i - 1) : registry[k].name \notin S].name

NonAlias(S) == {y \in S : ~Get(registry, y).isAlias}

\* C6: after generateMangledNames, used variables with the same resolved
\* value carry the same mangledName or all none, groups of different values
\* never share a mangledName, exactly one member of a mangled group has
\* emitDeclaration, a non-alias member if there is one and the first member
\* otherwise, and an unused variable has no mangledName and no emitDeclaration.
C6_Grouping ==
    AfterDecide =>
        /\ \A x \in Used(registry) : \A y \in GroupOf(x) :
               Get(registry, y).mangledName = Get(registry, x).mangledName
        /\ \A x \in Used(registry) : \A y \in Used(registry) \ GroupOf(x) :
               Get(registry, x).mangledName # NoName =>
                   Get(registry, y).mangledName # Get(registry, x).mangledName
        /\ \A x \in Used(registry) :
               Get(registry, x).mangledName # NoName =>
                   LET emitters == {y \in GroupOf(x) : Get(registry, y).emitDeclaration}
                   IN /\ Cardinality(emitters) = 1
                      /\ IF NonAlias(GroupOf(x)) # {}
                         THEN emitters \subseteq NonAlias(GroupOf(x))
                         ELSE emitters = {FirstOf(GroupOf(x))}
        /\ \A x \in Names(registry) \ Used(registry) :
               /\ Get(registry, x).mangledName = NoName
               /\ ~Get(registry, x).emitDeclaration

C6_Witness ==
    /\ AfterDecide
    /\ \E x \in Used(registry) :
           /\ Get(registry, x).mangledName # NoName
           /\ Cardinality(GroupOf(x)) > 1
           /\ Get(registry, FirstOf(GroupOf(x))).isAlias
           /\ NonAlias(GroupOf(x)) # {}

\* C7: for a mangled group and a transformed asset whose tokens layers
\* declare the group's canonical variable, that variable not being set
\* elsewhere, the asset's output holds exactly one declaration of the
\* group's mangledName, written by the declarations pass with the resolved
\* value.
C7_OneDeclarationPerAsset ==
    \A j \in 1..Len(assets) :
        Transformed(j) =>
            \A c \in DeclNames(source[j]) \cap Used(registry) :
                LET variable == Get(registry, c) IN
                (variable.mangledName # NoName /\ variable.emitDeclaration
                     /\ ~variable.setElsewhere) =>
                    /\ CountDecls(assets[j],
                           LAMBDA x : x.n = variable.mangledName) = 1
                    /\ CountDecls(declStage[j],
                           LAMBDA x : x = Decl(variable.mangledName,
                               resolveVariableValue(c, registry, 0))) = 1

C7_Witness ==
    \E j \in 1..Len(assets) :
        /\ Transformed(j)
        /\ Len(findTokensLayers(source[j])) > 1
        /\ \E c \in DeclNames(source[j]) \cap Used(registry) :
               /\ Get(registry, c).emitDeclaration
               /\ ~Get(registry, c).setElsewhere
               /\ CountDecls(assets[j],
                      LAMBDA x : x.n = Get(registry, c).mangledName) = 1

\* The registry's reference graph is acyclic with chains at most MaxDepth deep.
ShallowAcyclic(reg) ==
    /\ Acyclic(reg)
    /\ \A x \in Names(reg) : Height(reg, x) <= MaxDepth

\* The value with each reference to a registered variable replaced by that
\* variable's own resolved value, and each other reference left bare.
Substituted(value, reg) ==
    Flatten([i \in 1..Len(value) |->
        IF value[i].k # "ref" THEN <<value[i]>>
        ELSE IF Has(reg, value[i].n) THEN resolveVariableValue(value[i].n, reg, 0)
        ELSE <<Ref(value[i].n, "")>>])

\* The names a text can refer to that the registry may lack.
ProbeNames == {VarA, VarB, VarC, VarExt}

\* C8: in a registry that is acyclic with chains at most 10 deep, the
\* resolved value of a registered variable holds no reference to a registered
\* variable, each nested reference having been replaced by the referenced
\* variable's resolved value; an unregistered name resolves to its own bare
\* reference; and a reference site of a non-mangled alias that is not set
\* elsewhere becomes the resolved value of the variable it names, so a
\* transformed asset refers to a registered name only if that variable is set
\* elsewhere or the name is a mangledName.
C8_AliasResolution ==
    (Extracted /\ ShallowAcyclic(registry)) =>
        /\ \A x \in Names(registry) :
               LET resolved == resolveVariableValue(x, registry, 0) IN
               /\ \A i \in 1..Len(resolved) :
                      resolved[i].k = "ref" => ~Has(registry, resolved[i].n)
               /\ resolved = Substituted(Get(registry, x).value, registry)
        /\ \A n \in ProbeNames \ Names(registry) :
               resolveVariableValue(n, registry, 0) = <<Ref(n, "")>>
        /\ \A j \in 1..Len(assets) :
               Transformed(j) =>
                   \A i \in 1..Len(RefsOfText(assets[j])) :
                       LET n == RefsOfText(assets[j])[i] IN
                       Has(registry, n) =>
                           \/ Get(registry, n).setElsewhere
                           \/ \E w \in Used(registry) :
                                  Get(registry, w).mangledName = n

C8_Witness ==
    /\ pc = "done"
    /\ ShallowAcyclic(registry)
    /\ \E x \in Names(registry) :
           /\ Height(registry, x) = MaxDepth
           /\ Get(registry, x).isAlias
           /\ Get(registry, x).mangledName = NoName
           /\ SitesOf(source[1], x) # <<>>
           /\ resolveVariableValue(x, registry, 0) = <<Lit(Short)>>
    /\ RefsOfText(assets[1]) = <<>>

NoDuplicates(seq) ==
    \A i \in 1..Len(seq) : \A k \in 1..Len(seq) : seq[i] = seq[k] => i = k

\* Value resolution substitutes at most MaxDepth nested levels, what it
\* leaves of a registered variable is a bare reference, and one scan of
\* countVariableUsage expands no variable twice.
C9_Bounded ==
    /\ \A i \in 1..Len(resolveLog) :
           /\ resolveLog[i].depth <= MaxDepth
           /\ \A k \in 1..Len(resolveLog[i].resolved) :
                  (resolveLog[i].resolved[k].k = "ref"
                       /\ Has(registry, resolveLog[i].resolved[k].n)) =>
                      /\ resolveLog[i].resolved[k].s = ""
                      /\ resolveLog[i].depth = MaxDepth
    /\ \A j \in 1..Len(expandLog) : NoDuplicates(expandLog[j])

\* C9: on every registry, cyclic ones included, resolveVariableValue expands
\* at most 10 nested levels and leaves the reference beyond as a bare
\* var(--name), countVariableUsage expands a variable only while it is not
\* visited, and every call of generateBundle reaches completion.
C9_Termination == []C9_Bounded /\ ((pc = "start") ~> (pc = "done"))

C9_Witness ==
    /\ pc = "done"
    /\ ~Acyclic(registry)
    /\ \E i \in 1..Len(resolveLog) :
           /\ Get(registry, resolveLog[i].name).value = <<Ref(resolveLog[i].name, "")>>
           /\ resolveLog[i].resolved = <<Ref(resolveLog[i].name, "")>>
           /\ resolveLog[i].depth = MaxDepth
           /\ resolveLog[i].name \in {expandLog[1][k] : k \in 1..Len(expandLog[1])}

RECURSIVE SumOver(_, _)
SumOver(f(_), S) ==
    IF S = {} THEN 0
    ELSE LET x == CHOOSE y \in S : TRUE IN f(x) + SumOver(f, S \ {x})

\* The registered variables the text of asset j refers to, and those the scan
\* of the asset reaches through values.
TopRefs(j) ==
    {n \in {RefsOfText(source[j])[i] : i \in 1..Len(RefsOfText(source[j]))} :
        Has(registry, n)}

Reached(j) == Closure(registry, TopRefs(j))

\* The references to v in the values of the variables of S.
NestedSites(S, v) ==
    SumOver(LAMBDA w : Occurrences(RefsOfValue(Get(registry, w).value), v), S)

DirectSites(v) ==
    SumOver(LAMBDA j : Occurrences(RefsOfText(source[j]), v), 1..Len(source))

\* C10 as stated: every reference site adds one to usageCount, and a
\* variable's value is expanded at most once in the analysis pass of a build,
\* however many sites and assets refer to it.
C10_OncePerBuild ==
    AfterDecide =>
        /\ NoDuplicates(Flatten(expandLog))
        /\ \A v \in Names(registry) :
               Get(registry, v).usageCount
                   = DirectSites(v)
                     + NestedSites(UNION {Reached(j) : j \in 1..Len(source)}, v)

\* C10, amended: every reference site adds one to usageCount, and a
\* variable's value is expanded at most once in the scan of each asset that
\* reaches it, however many sites of that asset refer to it: the visited set
\* is new for each asset.
C10_OncePerAsset ==
    AfterDecide =>
        /\ \A j \in 1..Len(source) :
               /\ NoDuplicates(expandLog[j])
               /\ {expandLog[j][i] : i \in 1..Len(expandLog[j])} = Reached(j)
        /\ \A v \in Names(registry) :
               Get(registry, v).usageCount
                   = DirectSites(v)
                     + SumOver(LAMBDA j : NestedSites(Reached(j), v), 1..Len(source))

C10_Witness ==
    /\ AfterDecide
    /\ Len(source) > 1
    /\ \E w \in Reached(1) \cap Reached(2) :
           /\ RegRefs(registry, w) # {}
           /\ Len(SitesOf(source[1], w)) > 1
           /\ \E v \in RegRefs(registry, w) :
                  Get(registry, v).usageCount > DirectSites(v) + 1

====
